---- MODULE Spec2Model ----
(***************************************************************************)
(* Model of the tracked PDF downloader (download_pdfs.py): the ledger      *)
(* (DownloadTracker), the link extraction (extract_pdf_urls), the filename *)
(* derivation (sanitize_filename), the retrying download (download_file)   *)
(* and the batch loop (main), with process termination and reruns; and of  *)
(* the catalog discovery (fetch_all_cases.py): the parsing of one listing  *)
(* element (parse_case_element) and the Load More pagination               *)
(* (fetch_all_cases).                                                      *)
(***************************************************************************)
EXTENDS Integers, Sequences, FiniteSets, TLC

\* ---------------------------------------------------------------- constants
MAX_RETRIES == 3
NameLimit == 200
DefaultOffset == 10
PageSize == 10
ExtLen == 4

\* ------------------------------------------------------------------- bounds
MaxEntries == 2
MaxRuns == 2
MaxLines == 3
MaxParas == 3
MaxBatches == 2
MaxTitle == 3

\* ------------------------------------------------------------------ inputs
URLs == {"u1", "u2"}

\* Titles are sequences of characters; the empty one is the title of a URL
\* line that no heading precedes.
Titles == { <<>>, <<":">>, <<"A", " ", " ", "B">> }

RemoteKinds == {"ok", "fail", "cut", "flaky"}

VARIABLES
    linksExists,     \* os.path.exists(LINKS_FILE)
    pdf_urls,        \* the (title, url) pairs of the links file
    remote,          \* per URL, how the server answers a GET
    files,           \* the download directory: path -> file
    disk,            \* the tracking file on disk
    data,            \* tracker.data, the ledger in memory
    pc,              \* position of the process
    idx,             \* 1-based index of the entry being processed
    attempt,         \* download_file's loop variable
    downloaded, skipped, failed,
    exit_code,       \* argument of sys.exit, "none" while running or killed
    run,             \* number of the current process run
    log,             \* per finished entry of this run: what was done for it
    recordedAs,      \* per ledger key: the kind of file at its path when recorded
    completed,       \* entries whose body was streamed completely, in any run
    completedBefore, \* the same, at the start of the current run
    prev,            \* how the previous run ended ("none" in the first run)
    xlines, xpos, current_title, urls, xpc,  \* extract_pdf_urls
    arg, result, called,    \* a pure function, its argument and what it returned
    page,            \* the listing page fetch_all_cases starts from
    api,             \* the answers of the Load More API, in request order
    all_cases,       \* fetch_all_cases: the records collected so far
    offset,          \* fetch_all_cases: the offset of the next request
    nreq,            \* number of requests sent to the Load More API
    fpc              \* position of fetch_all_cases

dvars == <<linksExists, pdf_urls, remote, files, disk, data, pc, idx, attempt,
           downloaded, skipped, failed, exit_code, run, log, recordedAs,
           completed, completedBefore, prev>>
xvars == <<xlines, xpos, current_title, urls, xpc>>
pvars == <<arg, result, called>>
fvars == <<page, api, all_cases, offset, nreq, fpc>>
yvars == <<pvars, fvars>>
vars == <<dvars, xvars, yvars>>

\* ------------------------------------------------------- sanitize_filename
Unsafe == {"<", ">", ":", "\"", "/", "\\", "|", "?", "*"}
Whitespace == {" ", "\t"}

RemoveUnsafe(s) == SelectSeq(s, LAMBDA c : c \notin Unsafe)

\* the positions of s that start a run of whitespace or hold another character
RunStarts(s) ==
    SelectSeq([i \in 1..Len(s) |-> i],
              LAMBDA i : s[i] \notin Whitespace \/ i = 1 \/ s[i - 1] \notin Whitespace)

\* every whitespace character becomes a separator of its own
CollapseWhitespace_Each(s) ==
    [i \in 1..Len(s) |-> IF s[i] \in Whitespace THEN "_" ELSE s[i]]

\* re.sub(r'\s+', '_', s): each maximal run of whitespace becomes one "_"
CollapseWhitespace(s) ==
    LET starts == RunStarts(s)
    IN  [k \in 1..Len(starts) |->
            IF s[starts[k]] \in Whitespace THEN "_" ELSE s[starts[k]]]

Truncate(s) == IF Len(s) > NameLimit THEN SubSeq(s, 1, NameLimit) ELSE s

sanitize_filename(title) ==
    Truncate(CollapseWhitespace(RemoveUnsafe(title))) \o <<".pdf">>

Paths == { sanitize_filename(t) : t \in Titles }

\* ------------------------------------------------------------------- files
Absent == [kind |-> "absent", src |-> "-"]
Manual == [kind |-> "manual", src |-> "-"]
Partial(u) == [kind |-> "partial", src |-> u]
Full(u) == [kind |-> "full", src |-> u]

\* the existence check always answers no
path_exists_Never(fs, p) == FALSE

path_exists(fs, p) == fs[p].kind # "absent"

\* ---------------------------------------------------------- DownloadTracker
HashTable == [u \in URLs |-> IF u = "u1" THEN "k1" ELSE "k2"]

get_url_hash(u) == HashTable[u]

NoDownloads == [k \in {} |-> 0]

\* The result of json.load on the tracking file, or the fresh ledger.
\* the tracking file is ignored
load_tracking_data_Fresh(d) == [wellformed |-> TRUE, downloads |-> NoDownloads]

load_tracking_data(d) ==
    CASE d.kind = "json" -> [wellformed |-> TRUE, downloads |-> d.downloads]
      [] d.kind = "nonledger" -> [wellformed |-> FALSE, downloads |-> NoDownloads]
      [] OTHER -> [wellformed |-> TRUE, downloads |-> NoDownloads]

\* the file is rewritten without the entries
save_tracking_data_Empty(dat) == [kind |-> "json", downloads |-> NoDownloads]

save_tracking_data(dat) == [kind |-> "json", downloads |-> dat.downloads]

\* The tracking file after a kill between open(..., 'w') and the end of
\* json.dump: truncated, so no longer parsable.
TruncatedLedger == [kind |-> "unparsable", downloads |-> NoDownloads]

\* the ledger lookup always answers no
is_downloaded_Never(dat, u) == FALSE

is_downloaded(dat, u) == get_url_hash(u) \in DOMAIN dat.downloads

\* the new entry is not added
mark_downloaded_Forget(dat, u, filename, title, now) == dat

\* the new entry replaces the ledger instead of joining it
mark_downloaded_Wipe(dat, u, filename, title, now) ==
    [dat EXCEPT !.downloads =
        [k \in {get_url_hash(u)} |->
            [url |-> u, filename |-> filename, title |-> title,
             downloaded_at |-> now]]]

mark_downloaded(dat, u, filename, title, now) ==
    [dat EXCEPT !.downloads =
        [k \in DOMAIN dat.downloads \cup {get_url_hash(u)} |->
            IF k = get_url_hash(u)
            THEN [url |-> u, filename |-> filename, title |-> title,
                  downloaded_at |-> now]
            ELSE dat.downloads[k]]]


\* ------------------------------------------------------------ download_file
\* What one GET of url can do: "ok" streams the whole body, "fail" raises
\* before anything is written (connection error, timeout, bad status),
\* "cut" raises while the body is being streamed to the file.
RemoteResults(u) ==
    IF remote[u] = "flaky" THEN {"ok", "fail", "cut"} ELSE {remote[u]}

\* open(output_path, 'wb') and the chunks written before the exception.
WriteChunks(fs, p, u, r) ==
    CASE r = "ok" -> [fs EXCEPT ![p] = Full(u)]
      [] r = "cut" -> [fs EXCEPT ![p] = Partial(u)]
      [] OTHER -> fs

\* one attempt too many
LastAttempt_OffByOne(a) == ~(a < MAX_RETRIES)

LastAttempt(a) == ~(a < MAX_RETRIES - 1)

\* "Clean up partial download"
CleanUp(fs, p) == IF path_exists(fs, p) THEN [fs EXCEPT ![p] = Absent] ELSE fs

\* --------------------------------------------------------------------- main
\* the delay also follows the last entry
PoliteSleep_Always(i, n) == 1

PoliteSleep(i, n) == IF i < n THEN 1 ELSE 0

ExitCode(f) == IF f > 0 THEN "1" ELSE "0"

Title == pdf_urls[idx][1]
Url == pdf_urls[idx][2]
OutputPath == sanitize_filename(Title)

InBody == pc = "loop" /\ idx <= Len(pdf_urls)

\* the entry's facts when its processing starts
WasTracked == get_url_hash(Url) \in DOMAIN data.downloads
Existed == files[OutputPath].kind # "absent"

LogEntry(o, f, c, s, z) ==
    [entry |-> pdf_urls[idx], outcome |-> o, fetches |-> f, checks |-> c, saves |-> s, slept |-> z,
     was_tracked |-> IF pc = "loop" THEN WasTracked ELSE FALSE,
     existed |-> IF pc = "loop" THEN Existed ELSE FALSE]

Record(key, fs, p) == [k \in DOMAIN recordedAs \cup {key} |->
                         IF k = key THEN fs[p].kind ELSE recordedAs[k]]

OldTitle == <<"A">>

LedgerOf(S) ==
    [kind |-> "json",
     downloads |-> [k \in {get_url_hash(u) : u \in S} |->
        [url |-> CHOOSE u \in S : get_url_hash(u) = k,
         filename |-> sanitize_filename(OldTitle), title |-> OldTitle,
         downloaded_at |-> 0]]]

InitialLedgers ==
    { [kind |-> k, downloads |-> NoDownloads] :
          k \in {"absent", "unparsable", "nonledger"} }
    \cup { LedgerOf(S) : S \in SUBSET URLs \ {{}} }

EntryLists ==
    UNION { [1..n -> Titles \X URLs] : n \in 0..MaxEntries }

\* The inputs that no entry refers to are fixed: the answer of a URL that is
\* never requested, a file at a path that no title derives, and the entries of
\* a links file that is missing.
Relevant(le, es, rem, fs) ==
    /\ \A u \in URLs :
          (\A i \in 1..Len(es) : es[i][2] # u) => rem[u] = "ok"
    /\ \A p \in Paths :
          (\A i \in 1..Len(es) : sanitize_filename(es[i][1]) # p) => fs[p] = Absent
    /\ ~le => es = <<>>

XOff ==
    /\ xlines = <<>> /\ xpos = 1 /\ current_title = <<>> /\ urls = <<>>
    /\ xpc = "off"

\* no pure function is being applied
POff == arg = <<>> /\ result = <<>> /\ called = "off"

\* fetch_all_cases does not run
FOff ==
    /\ page = <<>> /\ api = <<>> /\ all_cases = <<>>
    /\ offset = 0 /\ nreq = 0 /\ fpc = "off"

Init ==
    /\ linksExists \in BOOLEAN
    /\ pdf_urls \in EntryLists
    /\ remote \in [URLs -> RemoteKinds]
    /\ files \in [Paths -> {Absent, Manual}]
    /\ Relevant(linksExists, pdf_urls, remote, files)
    /\ disk \in InitialLedgers
    /\ data = [wellformed |-> TRUE, downloads |-> NoDownloads]
    /\ pc = "init" /\ idx = 1 /\ attempt = 0
    /\ downloaded = 0 /\ skipped = 0 /\ failed = 0
    /\ exit_code = "none"
    /\ run = 1
    /\ log = <<>>
    /\ recordedAs = [k \in DOMAIN disk.downloads |-> "full"]
    /\ completed = {} /\ completedBefore = {}
    /\ prev = "none"
    /\ XOff /\ POff /\ FOff

\* lines 174-176: the links file is missing
StartNoLinks ==
    /\ pc = "init" /\ ~linksExists
    /\ pc' = "nolinks" /\ exit_code' = "1"
    /\ UNCHANGED <<linksExists, pdf_urls, remote, files, disk, data, idx,
                   attempt, downloaded, skipped, failed, run, log, recordedAs,
                   completed, completedBefore, prev>>
    /\ UNCHANGED <<xvars, yvars>>

\* lines 178-197: the tracker is constructed, the statistics are read.
\* _load_tracking_data catches json.JSONDecodeError only: a tracking file
\* that is valid JSON without a "downloads" mapping is returned as it is, and
\* get_stats (line 74, called at line 187) then raises a KeyError or TypeError
\* that nothing catches: the interpreter exits with status 1.
Start ==
    /\ pc = "init" /\ linksExists
    /\ data' = load_tracking_data(disk)
    /\ IF data'.wellformed
       THEN pc' = "loop" /\ exit_code' = "none"
       ELSE pc' = "aborted" /\ exit_code' = "1"   \* uncaught KeyError in get_stats
    /\ UNCHANGED <<linksExists, pdf_urls, remote, files, disk, idx,
                   attempt, downloaded, skipped, failed, run, log, recordedAs,
                   completed, completedBefore, prev>>
    /\ UNCHANGED <<xvars, yvars>>

NextEntry ==
    /\ idx' = idx + 1 /\ attempt' = 0 /\ pc' = "loop"

\* lines 203-206
SkipTracked ==
    /\ InBody /\ is_downloaded(data, Url)
    /\ skipped' = skipped + 1
    /\ log' = Append(log, LogEntry("skipped", 0, 0, 0, 0))
    /\ NextEntry
    /\ UNCHANGED <<linksExists, pdf_urls, remote, files, disk, data,
                   downloaded, failed, exit_code, run, recordedAs,
                   completed, completedBefore, prev>>
    /\ UNCHANGED <<xvars, yvars>>

\* an existing file is fetched again and overwritten
AdoptExisting_Refetch ==
    /\ InBody /\ ~is_downloaded(data, Url)
    /\ path_exists(files, OutputPath)
    /\ files' = WriteChunks(files, OutputPath, Url, "ok")
    /\ data' = mark_downloaded(data, Url, OutputPath, Title, run)
    /\ disk' = save_tracking_data(data')
    /\ recordedAs' = Record(get_url_hash(Url), files', OutputPath)
    /\ downloaded' = downloaded + 1
    /\ log' = Append(log, LogEntry("downloaded", 1, 1, 1, 0))
    /\ NextEntry
    /\ UNCHANGED <<linksExists, pdf_urls, remote,
                   skipped, failed, exit_code, run,
                   completed, completedBefore, prev>>
    /\ UNCHANGED <<xvars, yvars>>

\* lines 209-218
AdoptExisting ==
    /\ InBody /\ ~is_downloaded(data, Url)
    /\ path_exists(files, OutputPath)
    /\ data' = mark_downloaded(data, Url, OutputPath, Title, run)
    /\ disk' = save_tracking_data(data')
    /\ recordedAs' = Record(get_url_hash(Url), files, OutputPath)
    /\ skipped' = skipped + 1
    /\ log' = Append(log, LogEntry("skipped", 0, 1, 1, 0))
    /\ NextEntry
    /\ UNCHANGED <<linksExists, pdf_urls, remote, files,
                   downloaded, failed, exit_code, run,
                   completed, completedBefore, prev>>
    /\ UNCHANGED <<xvars, yvars>>

\* the fetch does not depend on the destination being free
CanAttempt_Any ==
    \/ InBody /\ ~is_downloaded(data, Url)
    \/ pc = "retry"

CanAttempt ==
    \/ InBody /\ ~is_downloaded(data, Url) /\ ~path_exists(files, OutputPath)
    \/ pc = "retry"

\* lines 136-150 and 223-224, 229-230: the attempt succeeds
AttemptOk ==
    /\ CanAttempt
    /\ "ok" \in RemoteResults(Url)
    /\ files' = WriteChunks(files, OutputPath, Url, "ok")
    /\ data' = mark_downloaded(data, Url, OutputPath, Title, run)
    /\ disk' = save_tracking_data(data')
    /\ recordedAs' = Record(get_url_hash(Url), files', OutputPath)
    /\ completed' = completed \cup {pdf_urls[idx]}
    /\ downloaded' = downloaded + 1
    /\ log' = Append(log, LogEntry("downloaded", attempt + 1, 1, 1,
                                   PoliteSleep(idx, Len(pdf_urls))))
    /\ NextEntry
    /\ UNCHANGED <<linksExists, pdf_urls, remote, skipped, failed, exit_code,
                   run, completedBefore, prev>>
    /\ UNCHANGED <<xvars, yvars>>

\* lines 152-157: the attempt fails and another one follows
AttemptFailRetry ==
    /\ CanAttempt
    /\ ~LastAttempt(attempt)
    /\ \E r \in RemoteResults(Url) \ {"ok"} :
          files' = WriteChunks(files, OutputPath, Url, r)
    /\ attempt' = attempt + 1
    /\ pc' = "retry"
    /\ UNCHANGED <<linksExists, pdf_urls, remote, disk, data, idx,
                   downloaded, skipped, failed, exit_code, run, log,
                   recordedAs, completed, completedBefore, prev>>
    /\ UNCHANGED <<xvars, yvars>>

\* the final failure ends the batch
AttemptFailFinal_Abort ==
    /\ CanAttempt
    /\ LastAttempt(attempt)
    /\ \E r \in RemoteResults(Url) \ {"ok"} :
          files' = CleanUp(WriteChunks(files, OutputPath, Url, r), OutputPath)
    /\ failed' = failed + 1
    /\ log' = Append(log, LogEntry("failed", attempt + 1, 2, 0, 0))
    /\ idx' = Len(pdf_urls) + 1 /\ attempt' = 0 /\ pc' = "loop"
    /\ UNCHANGED <<linksExists, pdf_urls, remote, disk, data,
                   downloaded, skipped, exit_code, run,
                   recordedAs, completed, completedBefore, prev>>
    /\ UNCHANGED <<xvars, yvars>>

\* lines 158-163 and 225-226, 229-230: the last attempt fails
AttemptFailFinal ==
    /\ CanAttempt
    /\ LastAttempt(attempt)
    /\ \E r \in RemoteResults(Url) \ {"ok"} :
          files' = CleanUp(WriteChunks(files, OutputPath, Url, r), OutputPath)
    /\ failed' = failed + 1
    /\ log' = Append(log, LogEntry("failed", attempt + 1, 2, 0,
                                   PoliteSleep(idx, Len(pdf_urls))))
    /\ NextEntry
    /\ UNCHANGED <<linksExists, pdf_urls, remote, disk, data,
                   downloaded, skipped, exit_code, run,
                   recordedAs, completed, completedBefore, prev>>
    /\ UNCHANGED <<xvars, yvars>>

\* lines 232-248: the summary and the exit status
Finish ==
    /\ pc = "loop" /\ idx > Len(pdf_urls)
    /\ exit_code' = ExitCode(failed)
    /\ pc' = "done"
    /\ UNCHANGED <<linksExists, pdf_urls, remote, files, disk, data, idx,
                   attempt, downloaded, skipped, failed, run, log, recordedAs,
                   completed, completedBefore, prev>>
    /\ UNCHANGED <<xvars, yvars>>


\* ------------------------------------------------ termination of the process
\* The process can be killed while it runs; a later run finds the files and
\* the tracking file as the kill left them.
Killable == run < MaxRuns /\ (InBody \/ pc = "retry")

Killed ==
    /\ pc' = "crashed"
    /\ UNCHANGED <<linksExists, pdf_urls, remote, data, idx, attempt,
                   downloaded, skipped, failed, exit_code, run, log,
                   completedBefore, prev>>
    /\ UNCHANGED <<xvars, yvars>>

\* killed between two entries, in a sleep, or in a GET before any write
Kill ==
    /\ Killable
    /\ Killed
    /\ UNCHANGED <<files, disk, recordedAs, completed>>

\* killed while the response body is streamed to the file (lines 143-146)
KillMidWrite ==
    /\ Killable /\ CanAttempt
    /\ RemoteResults(Url) \cap {"ok", "cut"} # {}
    /\ files' = WriteChunks(files, OutputPath, Url, "cut")
    /\ Killed
    /\ UNCHANGED <<disk, recordedAs, completed>>

\* killed between the end of the download and mark_downloaded (lines 150, 223)
KillAfterWrite ==
    /\ Killable /\ CanAttempt
    /\ "ok" \in RemoteResults(Url)
    /\ files' = WriteChunks(files, OutputPath, Url, "ok")
    /\ completed' = completed \cup {pdf_urls[idx]}
    /\ Killed
    /\ UNCHANGED <<disk, recordedAs>>

\* killed inside _save_tracking_data after a download (lines 48-49)
KillInSaveDownloaded ==
    /\ Killable /\ CanAttempt
    /\ "ok" \in RemoteResults(Url)
    /\ files' = WriteChunks(files, OutputPath, Url, "ok")
    /\ completed' = completed \cup {pdf_urls[idx]}
    /\ disk' = TruncatedLedger
    /\ Killed
    /\ UNCHANGED <<recordedAs>>

\* killed inside _save_tracking_data after an adoption (lines 48-49)
KillInSaveAdopted ==
    /\ Killable
    /\ InBody /\ ~is_downloaded(data, Url) /\ path_exists(files, OutputPath)
    /\ disk' = TruncatedLedger
    /\ Killed
    /\ UNCHANGED <<files, recordedAs, completed>>

\* the downloader is run again
Rerun ==
    /\ pc \in {"done", "crashed", "aborted", "nolinks"}
    /\ run < MaxRuns
    /\ run' = run + 1
    /\ pc' = "init" /\ idx' = 1 /\ attempt' = 0
    /\ data' = [wellformed |-> TRUE, downloads |-> NoDownloads]
    /\ downloaded' = 0 /\ skipped' = 0 /\ failed' = 0
    /\ exit_code' = "none"
    /\ log' = <<>>
    /\ completedBefore' = completed
    /\ prev' = pc
    /\ UNCHANGED <<linksExists, pdf_urls, remote, files, disk, recordedAs,
                   completed>>
    /\ UNCHANGED <<xvars, yvars>>

Next ==
    \/ StartNoLinks
    \/ Start
    \/ SkipTracked
    \/ AdoptExisting
    \/ AttemptOk
    \/ AttemptFailRetry
    \/ AttemptFailFinal
    \/ Finish
    \/ Kill
    \/ KillMidWrite
    \/ KillAfterWrite
    \/ KillInSaveDownloaded
    \/ KillInSaveAdopted
    \/ Rerun

Spec == Init /\ [][Next]_vars


\* --------------------------------------------------------- extract_pdf_urls
\* A line is a sequence of tokens: single characters where the code looks at
\* characters (digits, ".", ":", blanks, the newline), and whole words
\* elsewhere ("http" is the first four characters of a URL, ".pdf" / ".PDF"
\* the extension, "FULL CASE" / "PART" the label words).
Digits == {"1", "2"}
Blanks == {" ", "\n"}

RECURSIVE LeadingIn(_, _)
LeadingIn(l, S) ==
    IF l # <<>> /\ Head(l) \in S THEN 1 + LeadingIn(Tail(l), S) ELSE 0

Drop(l, n) == SubSeq(l, n + 1, Len(l))

RECURSIVE Reverse(_)
Reverse(l) == IF l = <<>> THEN <<>> ELSE Append(Reverse(Tail(l)), Head(l))

\* str.strip()
Strip(l) ==
    LET a == Drop(l, LeadingIn(l, Blanks))
    IN  Reverse(Drop(Reverse(a), LeadingIn(Reverse(a), Blanks)))

StartsWith(l, tok) == l # <<>> /\ Head(l) = tok

\* line 92
IsSkipped(l) ==
    \/ l = <<>>
    \/ StartsWith(l, "===")
    \/ StartsWith(l, "PDF DOWNLOAD")
    \/ StartsWith(l, "SUMMARY")

NoMatch == [ok |-> FALSE, group |-> <<>>]

\* \s+(.+) at the start of l
BlanksThenRest(l) ==
    LET w == LeadingIn(l, Blanks)
    IN  IF w >= 1 /\ Drop(l, w) # <<>>
        THEN [ok |-> TRUE, group |-> Drop(l, w)]
        ELSE NoMatch

\* re.match(r'^\d+\.\s+(.+)$', line)
TitleMatch(l) ==
    LET d == LeadingIn(l, Digits)
    IN  IF d >= 1 /\ StartsWith(Drop(l, d), ".")
        THEN BlanksThenRest(Drop(l, d + 1))
        ELSE NoMatch

\* the label FULL CASE or PART \d+ at the start of l, as (ok, its length)
LabelAt(l) ==
    IF StartsWith(l, "FULL CASE") THEN [ok |-> TRUE, len |-> 1]
    ELSE IF /\ StartsWith(l, "PART") /\ StartsWith(Drop(l, 1), " ")
            /\ LeadingIn(Drop(l, 2), Digits) >= 1
         THEN [ok |-> TRUE, len |-> 2 + LeadingIn(Drop(l, 2), Digits)]
         ELSE [ok |-> FALSE, len |-> 0]

\* re.match(r'(?:FULL CASE|PART \d+):\s+(.+)', line)
UrlMatch(l) ==
    LET lab == LabelAt(l)
    IN  IF lab.ok /\ StartsWith(Drop(l, lab.len), ":")
        THEN BlanksThenRest(Drop(l, lab.len + 1))
        ELSE NoMatch

\* re.match(r'(FULL CASE|PART \d+):', line).group(1)
PartLabel(l) == SubSeq(l, 1, LabelAt(l).len)

\* line 102: line.startswith('http') and '.pdf' in line.lower()
IsPdfUrl(l) ==
    /\ StartsWith(l, "http")
    /\ \E i \in 1..Len(l) : l[i] \in {".pdf", ".PDF"}

\* lines 104-114: the entry of a URL line
UrlEntry(l, cur) ==
    IF UrlMatch(l).ok
    THEN << cur \o <<" - ">> \o PartLabel(l), UrlMatch(l).group >>
    ELSE << cur, l >>

Heading(n, t) == <<n, ".", " ", t, "\n">>
Labelled(lab, u) == lab \o <<":", " ", "http", u, ".pdf", "\n">>
Plain(u) == <<"http", u, ".pdf", "\n">>

ExampleInput ==
    << Heading("1", "Case Alpha"),
       Labelled(<<"FULL CASE">>, "a"),
       Heading("2", "Case Beta"),
       Labelled(<<"PART", " ", "1">>, "b1"),
       Labelled(<<"PART", " ", "2">>, "b2") >>

LineSet ==
    { <<"\n">>, <<"===", "\n">>, <<"SUMMARY", "\n">>,
      Heading("1", "Case Alpha"), Heading("2", "Case Beta"),
      Labelled(<<"FULL CASE">>, "a"),
      Labelled(<<"PART", " ", "1">>, "b1"),
      Plain("c"), <<" ", "http", "d", ".PDF", "\n">>,
      <<"see", " ", "http", "e", ".pdf", "\n">> }

LinkFiles ==
    {ExampleInput} \cup UNION { [1..n -> LineSet] : n \in 0..MaxLines }

Line == Strip(xlines[xpos])

\* the downloader does not run while the links file is parsed
DOff ==
    /\ linksExists = TRUE /\ pdf_urls = <<>>
    /\ remote = [u \in URLs |-> "ok"]
    /\ files = [p \in Paths |-> Absent]
    /\ disk = [kind |-> "absent", downloads |-> NoDownloads]
    /\ data = [wellformed |-> TRUE, downloads |-> NoDownloads]
    /\ pc = "extract" /\ idx = 1 /\ attempt = 0
    /\ downloaded = 0 /\ skipped = 0 /\ failed = 0
    /\ exit_code = "none" /\ run = 1 /\ log = <<>>
    /\ recordedAs = NoDownloads
    /\ completed = {} /\ completedBefore = {} /\ prev = "none"

XInit ==
    /\ DOff /\ POff /\ FOff
    /\ xlines \in LinkFiles
    /\ xpos = 1 /\ current_title = <<>> /\ urls = <<>> /\ xpc = "read"

XReading == xpc = "read" /\ xpos <= Len(xlines)

\* lines 91-93
XSkip ==
    /\ XReading /\ IsSkipped(Line)
    /\ xpos' = xpos + 1
    /\ UNCHANGED <<xlines, current_title, urls, xpc>>
    /\ UNCHANGED <<dvars, yvars>>

\* the first heading stays the current title
XTitle_First ==
    /\ XReading /\ ~IsSkipped(Line) /\ TitleMatch(Line).ok
    /\ current_title' = IF current_title = <<>> THEN TitleMatch(Line).group
                        ELSE current_title
    /\ xpos' = xpos + 1
    /\ UNCHANGED <<xlines, urls, xpc>>
    /\ UNCHANGED <<dvars, yvars>>

\* lines 95-99
XTitle ==
    /\ XReading /\ ~IsSkipped(Line) /\ TitleMatch(Line).ok
    /\ current_title' = TitleMatch(Line).group
    /\ xpos' = xpos + 1
    /\ UNCHANGED <<xlines, urls, xpc>>
    /\ UNCHANGED <<dvars, yvars>>

\* lines 101-114
XUrl ==
    /\ XReading /\ ~IsSkipped(Line) /\ ~TitleMatch(Line).ok
    /\ IsPdfUrl(Line)
    /\ urls' = Append(urls, UrlEntry(Line, current_title))
    /\ xpos' = xpos + 1
    /\ UNCHANGED <<xlines, current_title, xpc>>
    /\ UNCHANGED <<dvars, yvars>>

\* any other line falls through the loop body
XOther ==
    /\ XReading /\ ~IsSkipped(Line) /\ ~TitleMatch(Line).ok
    /\ ~IsPdfUrl(Line)
    /\ xpos' = xpos + 1
    /\ UNCHANGED <<xlines, current_title, urls, xpc>>
    /\ UNCHANGED <<dvars, yvars>>

\* line 116
XReturn ==
    /\ xpc = "read" /\ xpos > Len(xlines)
    /\ xpc' = "done"
    /\ UNCHANGED <<xlines, xpos, current_title, urls>>
    /\ UNCHANGED <<dvars, yvars>>

XNext ==
    \/ XSkip
    \/ XTitle
    \/ XUrl
    \/ XOther
    \/ XReturn

ExtractSpec == XInit /\ [][XNext]_vars

\* ------------------------------------------------------ parse_case_element
\* An <a> element is [href, h3, ps, div]: href a sequence of tokens (<<>> when
\* the attribute is missing), h3 the text of its first <h3> (<<>> when it has
\* none, <<"">> when the heading is empty), ps the texts of its <p> elements
\* in document order, each a sequence of tokens, div the text of its first
\* <div> (<<>> when it has none).
SiteRoot == "https://mitsloan.mit.edu"
LibPrefix == "/teaching-resources-library/"
ListingName == "mit-sloan-case-studies-0"
Months == {"January", "February", "March", "April", "May", "June", "July",
           "August", "September", "October", "November", "December"}

\* len(text): the names and words of the model are three characters long,
\* every other token is one character
Width(tok) == IF tok \in {"By ", "Ann", "Bob", "May"} THEN 3 ELSE 1

RECURSIVE TextLen(_)
TextLen(t) == IF t = <<>> THEN 0 ELSE Width(Head(t)) + TextLen(Tail(t))

Contains(t, S) == \E i \in 1..Len(t) : t[i] \in S

\* str.strip() of an author's name
StripSpaces(t) ==
    LET a == Drop(t, LeadingIn(t, {" "}))
    IN  Reverse(Drop(Reverse(a), LeadingIn(Reverse(a), {" "})))

\* authors_text.split(',')
RECURSIVE SplitCommas(_, _)
SplitCommas(t, cur) ==
    IF t = <<>> THEN <<cur>>
    ELSE IF Head(t) = "," THEN <<cur>> \o SplitCommas(Tail(t), <<>>)
         ELSE SplitCommas(Tail(t), Append(cur, Head(t)))

\* lines 38-39
AuthorsOf(text) ==
    LET parts == SplitCommas(Tail(text), <<>>)
    IN  [i \in 1..Len(parts) |-> StripSpaces(parts[i])]

IsAuthors(text) == StartsWith(text, "By ")
IsDate(text) == Contains(text, {","}) /\ Contains(text, Months)

\* lines 34-46: the loop over the <p> elements
RECURSIVE ParagraphLoop(_, _)
ParagraphLoop(ps, acc) ==
    IF ps = <<>> THEN acc
    ELSE LET text == Head(ps)
         IN  ParagraphLoop(Tail(ps),
                IF IsAuthors(text) THEN [acc EXCEPT !.authors = AuthorsOf(text)]
                ELSE IF IsDate(text) THEN [acc EXCEPT !.date = text]
                ELSE IF TextLen(text) > TextLen(acc.description)
                     THEN [acc EXCEPT !.description = text]
                     ELSE acc)

\* lines 17-19
ResolveUrl(href) ==
    IF href # <<>> /\ ~StartsWith(href, "http") THEN <<SiteRoot>> \o href
    ELSE href

\* case_data; a key that is not set holds <<>>, a set title holds <<text>>
parse_case_element(e) ==
    LET acc == ParagraphLoop(e.ps,
                   [authors |-> <<>>, description |-> <<>>, date |-> <<>>])
    IN  [url |-> ResolveUrl(e.href), title |-> e.h3,
         authors |-> acc.authors, description |-> acc.description,
         date |-> acc.date, categories |-> e.div]

\* case_data.get('title')
HasTitle(c) == c.title # <<>> /\ c.title[1] # ""

\* parse_case_element applied to one element
ParagraphSet ==
    { <<"By ", "Ann", ",", " ", "Bob">>, <<"By ", "Bob">>,
      <<"May", " ", "1", ",", " ", "2">>,
      <<"x", "y">>, <<"x", "y", "z", "w">> }

Elements ==
    { [href |-> <<LibPrefix, "case-a">>, h3 |-> <<"Case A">>, ps |-> ps,
       div |-> <<"Operations">>] :
          ps \in UNION { [1..n -> ParagraphSet] : n \in 0..MaxParas } }

ParseInit ==
    /\ DOff /\ XOff /\ FOff
    /\ arg \in Elements /\ result = <<>> /\ called = "parse_case_element"

ParseApply ==
    /\ called = "parse_case_element"
    /\ result' = parse_case_element(arg)
    /\ called' = "returned"
    /\ UNCHANGED <<arg, dvars, xvars, fvars>>

ParseSpec == ParseInit /\ [][ParseApply]_vars

\* ------------------------------------------------------ fetch_all_cases
\* An <a> of a page or of a fragment is [href, h3, ps, div] as above.  The
\* initial page is [status, links, more]; more is the 'Load More' anchor:
\* found, its href (FALSE: '' or no href), and the query parameters of the
\* href ("" for a missing pid or base_nid, 0 for a missing offset).  A
\* pagination response is [status, ws, anchors]: ws says that the body holds
\* whitespace, anchors are the <a> elements of the body in document order.

CaseA == [href |-> <<LibPrefix, "case-a">>, h3 |-> <<"Case A">>,
          ps |-> << <<"By ", "Ann">> >>, div |-> <<"Operations">>]
CaseB == [href |-> <<LibPrefix, "case-b">>, h3 |-> <<"Case B">>,
          ps |-> <<>>, div |-> <<>>]
\* an anchor of the library without <h3>
NoHeading == [href |-> <<LibPrefix, "case-u">>, h3 |-> <<>>,
              ps |-> <<>>, div |-> <<>>]
\* an anchor of the library whose <h3> is empty
EmptyHeading == [href |-> <<LibPrefix, "case-e">>, h3 |-> <<"">>,
                 ps |-> <<>>, div |-> <<>>]
\* a navigation link
NavLink == [href |-> <<"/about">>, h3 |-> <<"About">>,
            ps |-> <<>>, div |-> <<>>]
\* the link to the listing page itself
ListingLink == [href |-> <<LibPrefix, ListingName>>, h3 |-> <<"Cases">>,
                ps |-> <<>>, div |-> <<>>]

\* line 82
IsInitialLink(a) ==
    /\ a.href # <<>>
    /\ StartsWith(a.href, LibPrefix)
    /\ a.href # <<LibPrefix, ListingName>>

\* line 83: link.find('h3')
HasH3(a) == a.h3 # <<>>

\* lines 82-83
InitialElements(links) ==
    SelectSeq(SelectSeq(links, IsInitialLink), HasH3)

\* line 150
IsFragmentLink(a) == a.href # <<>> /\ StartsWith(a.href, LibPrefix)

FragmentElements(anchors) == SelectSeq(anchors, IsFragmentLink)

\* lines 86-89 and 158-161, with no check of the title
RECURSIVE AppendTitled_All(_, _)
AppendTitled_All(cases, elems) ==
    IF elems = <<>> THEN cases
    ELSE AppendTitled_All(Append(cases, parse_case_element(Head(elems))),
                          Tail(elems))

\* lines 86-89 and 158-161
RECURSIVE AppendTitled(_, _)
AppendTitled(cases, elems) ==
    IF elems = <<>> THEN cases
    ELSE LET case_data == parse_case_element(Head(elems))
         IN  AppendTitled(IF HasTitle(case_data) THEN Append(cases, case_data)
                          ELSE cases,
                          Tail(elems))

\* line 117
InitialOffset(more) == IF more.offset = 0 THEN DefaultOffset ELSE more.offset

\* lines 96, 102, 119: the three early returns
HasParameters(more) ==
    more.found /\ more.href /\ more.pid # "" /\ more.base_nid # ""

\* line 144
IsEmptyBody(r) == (~r.ws /\ r.anchors = <<>>) \/ r.anchors = <<>>

LinkLists ==
    { <<>>, <<NavLink, CaseA, ListingLink>>, <<NoHeading, CaseB, EmptyHeading>> }

MoreAnchors ==
    { [found |-> FALSE, href |-> FALSE, pid |-> "", base_nid |-> "", offset |-> 0],
      [found |-> TRUE, href |-> FALSE, pid |-> "", base_nid |-> "", offset |-> 0],
      [found |-> TRUE, href |-> TRUE, pid |-> "", base_nid |-> "19867", offset |-> 10],
      [found |-> TRUE, href |-> TRUE, pid |-> "66387", base_nid |-> "", offset |-> 10],
      [found |-> TRUE, href |-> TRUE, pid |-> "66387", base_nid |-> "19867", offset |-> 0],
      [found |-> TRUE, href |-> TRUE, pid |-> "66387", base_nid |-> "19867", offset |-> 20] }

Pages ==
    { [status |-> "error", links |-> <<>>, more |-> m] :
          m \in { mm \in MoreAnchors : ~mm.found } }
    \cup { [status |-> "ok", links |-> l, more |-> m] :
               l \in LinkLists, m \in MoreAnchors }

ErrorResponse == [status |-> "error", ws |-> FALSE, anchors |-> <<>>]
EmptyResponse == [status |-> "ok", ws |-> FALSE, anchors |-> <<>>]
BlankResponse == [status |-> "ok", ws |-> TRUE, anchors |-> <<>>]
Fragment(as) == [status |-> "ok", ws |-> TRUE, anchors |-> as]

Responses ==
    { ErrorResponse, EmptyResponse, BlankResponse,
      Fragment(<<CaseA, CaseB>>), Fragment(<<CaseB, NoHeading, CaseA>>),
      Fragment(<<ListingLink, EmptyHeading>>), Fragment(<<NavLink>>) }

\* the answers of the API, request by request: at most MaxBatches of any
\* kind, then one that ends the pagination
ApiAnswers ==
    { s \o <<t>> :
          s \in UNION { [1..n -> Responses] : n \in 0..MaxBatches },
          t \in {ErrorResponse, EmptyResponse, BlankResponse} }

FetchInit ==
    /\ DOff /\ XOff /\ POff
    /\ page \in Pages /\ api \in ApiAnswers
    /\ all_cases = <<>> /\ offset = 0 /\ nreq = 0 /\ fpc = "start"

\* lines 76-77: the GET of the page is outside any try
FInitialRaise ==
    /\ fpc = "start" /\ page.status = "error"
    /\ fpc' = "raised"
    /\ UNCHANGED <<page, api, all_cases, offset, nreq, dvars, xvars, pvars>>

\* lines 76-121, one of the three early returns taken
FInitialOnly ==
    /\ fpc = "start" /\ page.status = "ok"
    /\ ~HasParameters(page.more)
    /\ all_cases' = AppendTitled(all_cases, InitialElements(page.links))
    /\ fpc' = "done"
    /\ UNCHANGED <<page, api, offset, nreq, dvars, xvars, pvars>>

\* lines 76-128
FInitialMore ==
    /\ fpc = "start" /\ page.status = "ok"
    /\ HasParameters(page.more)
    /\ all_cases' = AppendTitled(all_cases, InitialElements(page.links))
    /\ offset' = InitialOffset(page.more)
    /\ fpc' = "loop"
    /\ UNCHANGED <<page, api, nreq, dvars, xvars, pvars>>

\* the request of lines 140-141 raises: the exception leaves the function
FBatchError_Raise ==
    /\ fpc = "loop" /\ nreq < Len(api)
    /\ api[nreq + 1].status = "error"
    /\ nreq' = nreq + 1
    /\ fpc' = "raised"
    /\ UNCHANGED <<page, api, all_cases, offset, dvars, xvars, pvars>>

\* lines 140-141 raise, lines 169-171 break
FBatchError ==
    /\ fpc = "loop" /\ nreq < Len(api)
    /\ api[nreq + 1].status = "error"
    /\ nreq' = nreq + 1
    /\ fpc' = "done"
    /\ UNCHANGED <<page, api, all_cases, offset, dvars, xvars, pvars>>

\* lines 144-146
FBatchEmpty ==
    /\ fpc = "loop" /\ nreq < Len(api)
    /\ api[nreq + 1].status = "ok"
    /\ IsEmptyBody(api[nreq + 1])
    /\ nreq' = nreq + 1
    /\ fpc' = "done"
    /\ UNCHANGED <<page, api, all_cases, offset, dvars, xvars, pvars>>

\* lines 149-154
FBatchNoMatch ==
    /\ fpc = "loop" /\ nreq < Len(api)
    /\ api[nreq + 1].status = "ok"
    /\ ~IsEmptyBody(api[nreq + 1])
    /\ FragmentElements(api[nreq + 1].anchors) = <<>>
    /\ nreq' = nreq + 1
    /\ fpc' = "done"
    /\ UNCHANGED <<page, api, all_cases, offset, dvars, xvars, pvars>>

\* lines 149-167
FBatchMore ==
    /\ fpc = "loop" /\ nreq < Len(api)
    /\ api[nreq + 1].status = "ok"
    /\ ~IsEmptyBody(api[nreq + 1])
    /\ FragmentElements(api[nreq + 1].anchors) # <<>>
    /\ all_cases' =
           AppendTitled(all_cases, FragmentElements(api[nreq + 1].anchors))
    /\ offset' = offset + PageSize
    /\ nreq' = nreq + 1
    /\ UNCHANGED <<page, api, fpc, dvars, xvars, pvars>>

FetchNext ==
    \/ FInitialRaise \/ FInitialOnly \/ FInitialMore
    \/ FBatchError \/ FBatchEmpty \/ FBatchNoMatch \/ FBatchMore

FetchSpec == FetchInit /\ [][FetchNext]_vars

\* ---------------------------------------------------- sanitize_filename
\* sanitize_filename applied to one title: the short titles over a few
\* characters of each class, and long titles around the length limit.
TitleChars == {"a", "_", " ", "\t", ":", "*"}

ShortTitles(n) == UNION { [1..k -> TitleChars] : k \in 0..n }

Repeat(c, n) == [i \in 1..n |-> c]

LongTitles ==
    { s \o Repeat("a", n) :
          s \in ShortTitles(MaxTitle - 1),
          n \in (NameLimit - 1)..(NameLimit + 1) }

SanitizeInit ==
    /\ DOff /\ XOff /\ FOff
    /\ arg \in ShortTitles(MaxTitle) \cup LongTitles
    /\ result = <<>> /\ called = "sanitize_filename"

SanitizeApply ==
    /\ called = "sanitize_filename"
    /\ result' = sanitize_filename(arg)
    /\ called' = "returned"
    /\ UNCHANGED <<arg, dvars, xvars, fvars>>

SanitizeSpec == SanitizeInit /\ [][SanitizeApply]_vars

\* ------------------------------------------------------------------ claims
Key(i) == HashTable[pdf_urls[i][2]]
Last(q) == q[Len(q)]
Fixed == \A u \in URLs : remote[u] # "flaky"
AlwaysFails(u) == remote[u] \in {"fail", "cut"}

\* C1: an entry whose URL hash is a key of the ledger is counted as skipped
\* and nothing else happens: no fetch, no check or change of the download
\* directory, no rewrite of the ledger, whatever its title and whether or not
\* its file still exists. (The only other step from there is the kill of the
\* process, which changes none of them either.)
C1_TrackedSkippedUntouched ==
    [][ (InBody /\ WasTracked) =>
           /\ files' = files /\ disk' = disk /\ data' = data
           /\ downloaded' = downloaded /\ failed' = failed
           /\ \/ pc' = "crashed" /\ skipped' = skipped /\ log' = log
              \/ /\ skipped' = skipped + 1
                 /\ idx' = idx + 1 /\ pc' = "loop"
                 /\ Len(log') = Len(log) + 1
                 /\ Last(log').outcome = "skipped"
                 /\ Last(log').fetches = 0
                 /\ Last(log').checks = 0
                 /\ Last(log').saves = 0 ]_vars

C1_Witness ==
    \E i \in 1..Len(log) :
        /\ log[i].was_tracked /\ ~log[i].existed
        /\ log[i].outcome = "skipped"
        /\ Key(i) \in DOMAIN data.downloads
        /\ data.downloads[Key(i)].title # pdf_urls[i][1]

\* C2: an entry whose URL is not in the ledger but whose derived path holds a
\* file gets a ledger entry, on disk when the entry's processing ends; no
\* fetch is made, the file is left as it is, and the entry counts as skipped.
C2_ExistingFileAdopted ==
    [][ (InBody /\ ~WasTracked /\ Existed) =>
           /\ files' = files
           /\ downloaded' = downloaded /\ failed' = failed
           /\ \/ pc' = "crashed" /\ skipped' = skipped /\ log' = log
              \/ /\ disk'.kind = "json"
                 /\ Key(idx) \in DOMAIN disk'.downloads
                 /\ disk'.downloads[Key(idx)].url = Url
                 /\ disk'.downloads[Key(idx)].filename = OutputPath
                 /\ disk'.downloads[Key(idx)].title = Title
                 /\ data'.downloads = disk'.downloads
                 /\ skipped' = skipped + 1
                 /\ idx' = idx + 1 /\ pc' = "loop"
                 /\ Len(log') = Len(log) + 1
                 /\ Last(log').outcome = "skipped"
                 /\ Last(log').fetches = 0 ]_vars

C2_Witness ==
    \E i \in 1..Len(log) :
        /\ ~log[i].was_tracked /\ log[i].existed
        /\ log[i].outcome = "skipped" /\ log[i].saves = 1
        /\ disk.kind = "json" /\ Key(i) \in DOMAIN disk.downloads
        /\ files[sanitize_filename(pdf_urls[i][1])] = Manual

\* C3: an entry that reaches the download step and whose URL fails on every
\* attempt ends as failed after exactly MAX_RETRIES fetches, with no ledger
\* entry written for it and no file at its path when its processing ends.
C3_RetryExhaustion ==
    \A i \in 1..Len(log) :
        /\ (~log[i].was_tracked /\ ~log[i].existed /\ AlwaysFails(pdf_urls[i][2]))
              => log[i].outcome = "failed"
        /\ log[i].outcome = "failed" =>
              /\ log[i].fetches = MAX_RETRIES
              /\ log[i].saves = 0
              /\ (i = Len(log) /\ pc = "loop") =>
                    /\ ~path_exists(files, sanitize_filename(pdf_urls[i][1]))
                    /\ Key(i) \notin DOMAIN data.downloads
                    /\ failed = Cardinality({j \in 1..i : log[j].outcome = "failed"})

C3_Witness ==
    /\ pc = "loop" /\ log # <<>>
    /\ Last(log).outcome = "failed"
    /\ remote[Last(log).entry[2]] = "cut"
    /\ Last(log).fetches = MAX_RETRIES

\* C4 as stated: a second complete run in a row, with a fixed remote, makes
\* no new download and ends every entry as skipped.
SecondRunDone == run >= 2 /\ prev = "done" /\ pc = "done" /\ Fixed

C4_Original ==
    SecondRunDone =>
        /\ downloaded = 0
        /\ \A i \in 1..Len(log) : log[i].outcome = "skipped"

\* C4 as amended: a second complete run in a row, with a fixed remote, makes
\* no new download and no ledger change; every entry whose URL the remote
\* serves ends as skipped, and an entry ends as failed only when its URL
\* fails on every attempt (a failed entry is tried again on every run).
C4_Idempotence ==
    SecondRunDone =>
        /\ downloaded = 0
        /\ \A i \in 1..Len(log) :
              /\ log[i].outcome \in {"skipped", "failed"}
              /\ remote[pdf_urls[i][2]] = "ok" =>
                    log[i].outcome = "skipped" /\ log[i].fetches = 0
              /\ log[i].outcome = "failed" => AlwaysFails(pdf_urls[i][2])

C4_Witness ==
    /\ SecondRunDone
    /\ \E i \in 1..Len(log) : log[i].outcome = "skipped" /\ log[i].was_tracked
                                /\ files[sanitize_filename(pdf_urls[i][1])].kind = "full"
    /\ \E i \in 1..Len(log) : log[i].outcome = "failed"

\* C5: every ledger entry was recorded for a file that was completely
\* written (a fully streamed body, or a file that was there before the
\* downloader ever ran); a partial file is never recorded as downloaded.
C5_LedgerOnlyCompleteFiles ==
    \A k \in DOMAIN recordedAs : recordedAs[k] \in {"full", "manual"}

RECURSIVE ClaimedLabelled(_, _)
ClaimedLabelled(ls, cur) ==
    IF ls = <<>> THEN <<>>
    ELSE LET l == Strip(Head(ls))
         IN  IF TitleMatch(l).ok
             THEN ClaimedLabelled(Tail(ls), <<TitleMatch(l).group>>)
             ELSE IF UrlMatch(l).ok /\ cur # <<>> /\ IsPdfUrl(UrlMatch(l).group)
                  THEN << << cur[1] \o <<" - ">> \o PartLabel(l),
                             UrlMatch(l).group >> >>
                       \o ClaimedLabelled(Tail(ls), cur)
                  ELSE ClaimedLabelled(Tail(ls), cur)

IsLabelledEntry(e) == \E i \in 1..Len(e[1]) : e[1][i] = " - "

ExampleOutput ==
    << << <<"Case Alpha", " - ", "FULL CASE">>, <<"http", "a", ".pdf">> >>,
       << <<"Case Beta", " - ", "PART", " ", "1">>, <<"http", "b1", ".pdf">> >>,
       << <<"Case Beta", " - ", "PART", " ", "2">>, <<"http", "b2", ".pdf">> >> >>

C7_LabelledLinesExtracted ==
    xpc = "done" =>
        /\ SelectSeq(urls, IsLabelledEntry) = ClaimedLabelled(xlines, <<>>)
        /\ xlines = ExampleInput => urls = ExampleOutput

\* C8: the run processes every entry once, in input order, each with one of
\* the three outcomes, and the three counters add up to the number of
\* entries at the end, whatever fails.
Count(o) == Cardinality({i \in 1..Len(log) : log[i].outcome = o})

C8_EveryEntryOneOutcome ==
    /\ \A i \in 1..Len(log) :
          /\ log[i].entry = pdf_urls[i]
          /\ log[i].outcome \in {"downloaded", "skipped", "failed"}
    /\ downloaded = Count("downloaded")
    /\ skipped = Count("skipped")
    /\ failed = Count("failed")
    /\ pc \in {"loop", "retry"} => Len(log) = idx - 1
    /\ pc = "done" =>
          /\ Len(log) = Len(pdf_urls)
          /\ downloaded + skipped + failed = Len(pdf_urls)

C8_Witness ==
    /\ pc = "done" /\ Len(log) = 2
    /\ log[1].outcome = "failed"
    /\ log[2].outcome = "downloaded"

\* C9: when the links file exists, the process exits with status 1 exactly
\* when an entry ended as failed, and with 0 exactly when every entry ended
\* as downloaded or skipped.
Exited == exit_code # "none"

C9_ExitStatus ==
    (linksExists /\ Exited) =>
        /\ exit_code = "1" <=> failed > 0
        /\ exit_code = "0" <=>
              /\ Len(log) = Len(pdf_urls)
              /\ \A i \in 1..Len(log) : log[i].outcome \in {"downloaded", "skipped"}

\* C10 as stated: the delay is applied once after every entry but the last,
\* whatever the entry's outcome.
C10_Original ==
    \A i \in 1..Len(log) :
        log[i].slept = IF i < Len(pdf_urls) THEN 1 ELSE 0

\* C10 as amended: the delay is applied once after every entry that reached
\* the download step (downloaded or failed) and is not the last; no delay
\* follows a skipped entry or the last entry.
C10_PolitenessDelay ==
    \A i \in 1..Len(log) :
        log[i].slept =
            IF log[i].outcome \in {"downloaded", "failed"} /\ i < Len(pdf_urls)
            THEN 1 ELSE 0

C10_Witness ==
    /\ pc = "done" /\ Len(log) = 2
    /\ log[1].outcome = "failed" /\ log[1].slept = 1
    /\ log[2].outcome = "downloaded" /\ log[2].slept = 0


\* C17: the authors come from the first paragraph, in document order, whose
\* text starts with "By ", split at commas and trimmed; later paragraphs that
\* start with "By " do not change them.
RECURSIVE FirstBy(_)
FirstBy(ps) ==
    IF ps = <<>> THEN <<>>
    ELSE IF StartsWith(Head(ps), "By ") THEN <<Head(ps)>>
         ELSE FirstBy(Tail(ps))

ClaimedAuthors(ps) ==
    IF FirstBy(ps) = <<>> THEN <<>> ELSE AuthorsOf(FirstBy(ps)[1])

C17_AuthorsFromFirstBy ==
    called = "returned" => result.authors = ClaimedAuthors(arg.ps)

\* the titled records of the initial page followed by those of the first n
\* batches, in batch order and in document order within a batch
TitledRecords(elems) ==
    SelectSeq([i \in 1..Len(elems) |-> parse_case_element(elems[i])], HasTitle)
RECURSIVE Collected(_)
Collected(n) ==
    IF n = 0 THEN TitledRecords(InitialElements(page.links))
    ELSE Collected(n - 1) \o TitledRecords(FragmentElements(api[n].anchors))

Returned == fpc = "done"
EndsPagination(r) ==
    r.status = "ok" /\ (IsEmptyBody(r) \/ FragmentElements(r.anchors) = <<>>)

\* C11 as stated: when the responses end in an empty or whitespace-only body
\* and every response before it is a non-empty batch, the requests stop at
\* that last response and the result is the titled records of the initial
\* page followed by those of every batch before it.
C11_Original ==
    ( /\ Returned /\ nreq >= 1
      /\ Last(api).status = "ok" /\ IsEmptyBody(Last(api))
      /\ \A k \in 1..(Len(api) - 1) :
             api[k].status = "ok" /\ ~IsEmptyBody(api[k]) )
    => (nreq = Len(api) /\ all_cases = Collected(Len(api) - 1))

\* C11: pagination stops at the first response that is empty, whitespace-only
\* or holds no matching anchor: no request follows it, and the result is
\* exactly the titled records of the initial page followed by the titled
\* records of every batch before that response, in batch order and in
\* document order within a batch.
C11_PaginationTermination ==
    (Returned /\ nreq >= 1 /\ api[nreq].status = "ok")
    => /\ EndsPagination(api[nreq])
       /\ \A k \in 1..(nreq - 1) : ~EndsPagination(api[k])
       /\ all_cases = Collected(nreq - 1)
       /\ offset = InitialOffset(page.more) + PageSize * (nreq - 1)
       /\ ~ENABLED FetchNext

C11_Witness ==
    /\ Returned /\ nreq = 3 /\ IsEmptyBody(api[3]) /\ api[3].status = "ok"
    /\ api[1].anchors = <<CaseB, NoHeading, CaseA>>
    /\ api[2].anchors = <<ListingLink, EmptyHeading>>
    /\ Len(all_cases) = 3

\* C12: a failed pagination request ends the loop without raising: it was
\* issued once, no request follows it, and the result is what had been
\* collected from the initial page and from the batches before it.
C12_TransportFailureEndsLoop ==
    (fpc \in {"done", "raised"} /\ nreq >= 1 /\ api[nreq].status = "error")
    => /\ Returned
       /\ \A k \in 1..(nreq - 1) :
              api[k].status = "ok" /\ ~EndsPagination(api[k])
       /\ all_cases = Collected(nreq - 1)
       /\ ~ENABLED FetchNext

C12_Witness ==
    /\ Returned /\ nreq = 2 /\ api[2].status = "error" /\ Len(api) = 3
    /\ Len(all_cases) = 3

\* a step of the run that calls mark_downloaded
MarkStep == pc \in {"loop", "retry"} /\ data' # data

C14_UnreadableLedgerIsEmpty ==
    [][ (pc = "init" /\ linksExists /\ disk.kind \in {"unparsable", "nonledger"})
        => (pc' = "loop" /\ data'.downloads = NoDownloads /\ exit_code' = "none")
      ]_vars

\* a step of the downloader itself, not the kill of its process
OwnStep == pc' # "crashed"

\* C15: the ledger is append-only. No step of the downloader removes or
\* alters an entry of the ledger in memory or of the ledger file, a run that
\* starts on a ledger file holds all its entries, and after each
\* mark_downloaded the file holds exactly the ledger in memory: all earlier
\* entries and the new one.
C15_LedgerAppendOnly ==
    [][ OwnStep =>
        /\ (run' = run /\ pc # "init") =>
               \A k \in DOMAIN data.downloads :
                   k \in DOMAIN data'.downloads
                   /\ data'.downloads[k] = data.downloads[k]
        /\ disk.kind = "json" =>
               /\ disk'.kind = "json"
               /\ \A k \in DOMAIN disk.downloads :
                      k \in DOMAIN disk'.downloads
                      /\ disk'.downloads[k] = disk.downloads[k]
        /\ (pc = "init" /\ pc' = "loop" /\ disk.kind = "json") =>
               data'.downloads = disk.downloads
        /\ MarkStep =>
               /\ disk' = [kind |-> "json", downloads |-> data'.downloads]
               /\ DOMAIN data'.downloads =
                      DOMAIN data.downloads \cup {get_url_hash(Url)}
               /\ data'.downloads[get_url_hash(Url)].url = Url
      ]_vars

\* the ledger file holds two entries: one it held before the first run with
\* its old title, and one appended by a run
C15_Witness ==
    /\ disk.kind = "json"
    /\ DOMAIN disk.downloads = {"k1", "k2"}
    /\ \E k \in {"k1", "k2"} :
           /\ disk.downloads[k].title = OldTitle
           /\ disk.downloads[k].downloaded_at = 0
    /\ \E k \in {"k1", "k2"} : disk.downloads[k].downloaded_at = 2
    /\ disk.downloads = data.downloads

\* the name without its extension, and the length of the name in characters
Stem(name) == SubSeq(name, 1, Len(name) - 1)
NameLen(name) == Len(Stem(name)) + ExtLen
HasUnderscoreRun(s) == \E i \in 1..(Len(s) - 1) : s[i] = "_" /\ s[i + 1] = "_"
Sanitized == called = "returned" /\ arg # <<>>

\* C16 as stated: the name of a non-empty title holds no unsafe character, no
\* whitespace and no run of more than one `_`, and is at most 204 long.
C16_Original ==
    Sanitized =>
        /\ Last(result) = ".pdf"
        /\ \A i \in 1..Len(Stem(result)) :
               Stem(result)[i] \notin Unsafe \cup Whitespace
        /\ ~HasUnderscoreRun(Stem(result))
        /\ NameLen(result) <= NameLimit + ExtLen

\* C16: the name of a non-empty title holds no unsafe character and no
\* whitespace, holds no run of more than one `_` when the title itself holds
\* no `_`, is at most 204 long (200 and the extension), and is a function of
\* the title.
C16_SanitizedName ==
    Sanitized =>
        /\ Last(result) = ".pdf"
        /\ \A i \in 1..Len(Stem(result)) :
               Stem(result)[i] \notin Unsafe \cup Whitespace
        /\ (~Contains(arg, {"_"})) => ~HasUnderscoreRun(Stem(result))
        /\ NameLen(result) <= NameLimit + ExtLen
        /\ \A i \in 1..Len(Stem(result)) :
               Stem(result)[i] \in {"_"} \cup { arg[j] : j \in 1..Len(arg) }

\* a title longer than the limit that starts with a run of whitespace: the
\* run became one `_` and the name was cut at the limit
C16_Witness ==
    /\ Sanitized
    /\ Len(arg) = NameLimit + 3
    /\ arg[1] \in Whitespace /\ arg[2] \in Whitespace
    /\ result[1] = "_" /\ result[2] = "a"
    /\ NameLen(result) = NameLimit + ExtLen

\* the four kinds of line of C18, told apart by how the line was written
BlankLines == { <<"\n">> }
BannerLines == { <<"===", "\n">>, <<"SUMMARY", "\n">> }
HeadingLines == { Heading("1", "Case Alpha"), Heading("2", "Case Beta") }
UrlLines == { Plain("c"), <<" ", "http", "d", ".PDF", "\n">> }
PlainInput ==
    \A i \in 1..Len(xlines) :
        xlines[i] \in BlankLines \cup BannerLines \cup HeadingLines \cup UrlLines

\* the text of a heading line, and the text of a URL line without the
\* blanks and the newline around it
HeadingText(l) == <<l[4]>>
UrlText(l) == SelectSeq(l, LAMBDA c : c \notin {" ", "\n"})

\* the text of the nearest heading before line i, empty when there is none
NearestHeading(i) ==
    LET hs == { j \in 1..(i - 1) : xlines[j] \in HeadingLines }
    IN  IF hs = {} THEN <<>>
        ELSE HeadingText(xlines[CHOOSE j \in hs : \A k \in hs : k <= j])

UrlLinePositions ==
    SelectSeq([i \in 1..Len(xlines) |-> i], LAMBDA i : xlines[i] \in UrlLines)

\* C18: on an input of blank lines, banner lines, numbered headings and
\* unlabelled URL lines, the result holds one entry per URL line, in input
\* order: the URL is the line's text and the title is the text of the nearest
\* heading before it, empty when there is none. Blank lines and banners give
\* no entry and leave the current title alone; a later heading replaces it.
C18_PlainUrlLines ==
    /\ (xpc = "done" /\ PlainInput) =>
           urls = [k \in 1..Len(UrlLinePositions) |->
                      << NearestHeading(UrlLinePositions[k]),
                         UrlText(xlines[UrlLinePositions[k]]) >>]
    /\ (xpc = "read" /\ PlainInput) =>
           current_title = NearestHeading(xpos)

\* two headings and then a URL line: the entry carries the second heading
C18_Witness ==
    /\ xpc = "done"
    /\ xlines = << Heading("1", "Case Alpha"), Heading("2", "Case Beta"),
                   Plain("c") >>
    /\ urls = << << <<"Case Beta">>, <<"http", "c", ".pdf">> >> >>

\* an entry is being processed: at the top of the loop body or in a retry
InEntry == (pc = "loop" /\ idx <= Len(pdf_urls)) \/ pc = "retry"

\* C19: no file that existed when an entry's processing began is deleted or
\* overwritten. A step changes no file but the entry's destination; when a
\* file exists at the destination at the top of the loop body, the entry is
\* finished in that one step with every file unchanged; and download_file is
\* only ever inside its attempts for a destination that was free.
C19_ExistingFilesUntouched ==
    [][ /\ \A p \in Paths :
               (~InEntry \/ p # OutputPath) => files'[p] = files[p]
        /\ (InBody /\ Existed) =>
               files' = files /\ pc' \in {"loop", "crashed"}
        /\ (pc' = "retry" /\ pc # "retry") => (InBody /\ ~Existed)
      ]_vars

\* the first entry failed at a free destination, which is free again; the
\* second found a file at its destination, which is still the same file
C19_Witness ==
    /\ Len(log) = 2
    /\ log[1].outcome = "failed"
    /\ files[sanitize_filename(log[1].entry[1])] = Absent
    /\ log[2].existed /\ ~log[2].was_tracked /\ log[2].fetches = 0
    /\ files[sanitize_filename(log[2].entry[1])] = Manual

\* entries i < j of this run's log with different URLs and the same derived
\* filename, the earlier one downloaded
SameFile(i, j) ==
    /\ i < j
    /\ log[i].entry[2] # log[j].entry[2]
    /\ sanitize_filename(log[i].entry[1]) = sanitize_filename(log[j].entry[1])
    /\ log[i].outcome = "downloaded"

DownloadsTo(p) ==
    { i \in 1..Len(log) :
          log[i].outcome = "downloaded" /\ sanitize_filename(log[i].entry[1]) = p }

\* C20 as stated: the later entry is not fetched, is counted as skipped, and
\* its URL is in the ledger against the earlier entry's file; no path receives
\* two successful fetches in a run.
C20_Original ==
    /\ \A i, j \in 1..Len(log) :
           SameFile(i, j) =>
               /\ log[j].outcome = "skipped" /\ log[j].fetches = 0
               /\ is_downloaded(data, log[j].entry[2])
               /\ data.downloads[get_url_hash(log[j].entry[2])].filename =
                      sanitize_filename(log[i].entry[1])
    /\ \A p \in Paths : Cardinality(DownloadsTo(p)) <= 1

\* C20: the later entry is not fetched and is counted as skipped; its URL is
\* in the ledger, against the earlier entry's file unless the ledger held the
\* URL already; no path receives two successful fetches in a run.
C20_SameFilenameNotRefetched ==
    /\ \A i, j \in 1..Len(log) :
           SameFile(i, j) =>
               /\ log[j].outcome = "skipped" /\ log[j].fetches = 0
               /\ is_downloaded(data, log[j].entry[2])
               /\ ~log[j].was_tracked =>
                      /\ log[j].existed /\ log[j].saves = 1
                      /\ data.downloads[get_url_hash(log[j].entry[2])].filename =
                             sanitize_filename(log[i].entry[1])
    /\ \A p \in Paths : Cardinality(DownloadsTo(p)) <= 1

\* an entry with the empty title was downloaded, and a later entry with
\* another title, another URL and the same filename was adopted
C20_Witness ==
    /\ Len(log) = 2 /\ SameFile(1, 2)
    /\ log[1].entry[1] = <<>> /\ log[2].entry[1] # <<>>
    /\ log[2].outcome = "skipped" /\ ~log[2].was_tracked
    /\ files[sanitize_filename(<<>>)] = Full(log[1].entry[2])

====
